---- MODULE Spec2Model ----
(***************************************************************************)
(* vite-plugin-image-compress: the generateBundle / closeBundle hooks of   *)
(* src/plugins/vite-plugin-image-compress.ts as a state machine.           *)
(*                                                                         *)
(* A path is a sequence of one-character strings, so that path.extname,    *)
(* toLowerCase and the filter's regular expressions are computed from the  *)
(* characters.  A Buffer is a record [origin, len]: origin tells the       *)
(* asset's own bytes ("source") from the buffer the encoder returned       *)
(* ("sharp").  JavaScript runs generateBundle's for-loop to its            *)
(* `await Promise.all` before any continuation of a task: the loop         *)
(* iterations are steps under pc = "loop", and a continuation is a step    *)
(* that needs the loop to be over.  The logger's calls are kept as a bag,  *)
(* and of closeBundle's output the last one printed.                       *)
(*                                                                         *)
(* Spec is one generateBundle call followed by closeBundle; SpecHang adds  *)
(* the scheduling of the event loop with one encoder call that may never   *)
(* return; SpecClassify runs the hooks on one-entry bundles over a larger  *)
(* set of paths; SpecRepeat lets generateBundle be called again on the     *)
(* same plugin instance.                                                   *)
(***************************************************************************)
EXTENDS Integers, Sequences, FiniteSets, TLC

\* ---------------------------------------------------------------- bounds
MaxAssets == 2
MaxSize == 1
MaxRepeats == 1

\* ----------------------------------------------------------------- paths
Undefined == [t |-> "undefined"]

P_a_jpg == <<"a", ".", "j", "p", "g">>
P_b_PNG == <<"b", ".", "P", "N", "G">>
P_d_gif == <<"d", ".", "g", "i", "f">>
P_e_webp == <<"e", ".", "w", "e", "b", "p">>
P_excluded_webp == <<"e", "x", "c", "l", "u", "d", "e", "d", ".", "w", "e", "b", "p">>
P_f_svg == <<"f", ".", "S", "v", "g">>
P_h_txt == <<"h", ".", "t", "x", "t">>

\* the keys a bundle may have, in the order in which it holds them
PathOrder == <<P_a_jpg, P_b_PNG, P_d_gif, P_e_webp, P_excluded_webp, P_f_svg, P_h_txt>>

Paths == {PathOrder[i] : i \in DOMAIN PathOrder}

W_png == <<"p", "n", "g">>
W_jpg == <<"j", "p", "g">>
W_jpeg == <<"j", "p", "e", "g">>
W_gif == <<"g", "i", "f">>
W_svg == <<"s", "v", "g">>
W_webp == <<"w", "e", "b", "p">>
W_avif == <<"a", "v", "i", "f">>
W_txt == <<"t", "x", "t">>
W_excluded == <<"e", "x", "c", "l", "u", "d", "e", "d">>

Lowercase ==
    <<"a", "b", "c", "d", "e", "f", "g", "h", "i", "j", "k", "l", "m",
      "n", "o", "p", "q", "r", "s", "t", "u", "v", "w", "x", "y", "z">>
Uppercase ==
    <<"A", "B", "C", "D", "E", "F", "G", "H", "I", "J", "K", "L", "M",
      "N", "O", "P", "Q", "R", "S", "T", "U", "V", "W", "X", "Y", "Z">>

\* String.prototype.toLowerCase, one character
LowerChar(c) ==
    IF \E i \in DOMAIN Uppercase : Uppercase[i] = c
    THEN Lowercase[CHOOSE i \in DOMAIN Uppercase : Uppercase[i] = c]
    ELSE c

ToLowerCase(s) == [k \in 1..Len(s) |-> LowerChar(s[k])]

\* path.extname (posix): from the last "." of the last path segment, "" when
\* there is none or when it is the segment's first character
ExtName(p) ==
    LET slashes == {k \in 1..Len(p) : p[k] = "/"}
        start == IF slashes = {} THEN 1
                 ELSE 1 + CHOOSE k \in slashes : \A m \in slashes : m <= k
        dots == {k \in start..Len(p) : p[k] = "."}
        lastDot == CHOOSE k \in dots : \A m \in dots : m <= k
    IN IF dots = {} THEN <<>>
       ELSE IF lastDot = start THEN <<>>
       ELSE IF lastDot = start + 1 /\ p[start] = "." /\ Len(p) = lastDot THEN <<>>
       ELSE SubSeq(p, lastDot, Len(p))

Ext(w) == <<".">> \o w

\* The paths the classification is run on: a directory (with or without a
\* dot in its name), a stem (empty, plain, or with a dot of its own), and
\* either no suffix or "." and a word in lower case, in upper case or
\* capitalised.
UpperChar(c) ==
    IF \E i \in DOMAIN Lowercase : Lowercase[i] = c
    THEN Uppercase[CHOOSE i \in DOMAIN Lowercase : Lowercase[i] = c]
    ELSE c

LetterCases == {"lower", "upper", "capital"}

InCase(w, case) ==
    [k \in 1..Len(w) |->
        IF case = "upper" \/ (case = "capital" /\ k = 1) THEN UpperChar(w[k]) ELSE w[k]]

ClassifyDirs == {<<"a", "/">>, <<"a", ".", "d", "/">>}
ClassifyStems == {<<>>, <<"b">>, <<"b", ".", "c">>}
ClassifyWords == {W_jpg, W_jpeg, W_png, W_webp, W_gif, W_avif, W_svg, W_txt}

WithSuffix(dir, stem, w, case) == dir \o stem \o Ext(InCase(w, case))
WithoutSuffix(dir, stem) == dir \o stem

ClassifyPaths ==
    {WithSuffix(dir, stem, w, case) :
        dir \in ClassifyDirs, stem \in ClassifyStems, w \in ClassifyWords,
        case \in LetterCases}
    \cup {WithoutSuffix(dir, stem) : dir \in ClassifyDirs, stem \in ClassifyStems \ {<<>>}}

AllPaths == Paths \cup ClassifyPaths

\* ------------------------------------------------------- filter patterns
\* A regular expression of the two shapes the repository uses:
\*   /\.(w1|w2|...)$/ with or without the i flag, and /word/
EndsWith(s, suf) ==
    /\ Len(suf) <= Len(s)
    /\ SubSeq(s, Len(s) - Len(suf) + 1, Len(s)) = suf

Contains(s, w) ==
    \E k \in 1..Len(s) : k + Len(w) - 1 <= Len(s) /\ SubSeq(s, k, k + Len(w) - 1) = w

RegexMatch(re, p) ==
    IF re.shape = "suffix"
    THEN \E w \in re.words : EndsWith(IF re.icase THEN ToLowerCase(p) ELSE p, Ext(w))
    ELSE Contains(p, re.word)

DefaultInclude ==
    [t |-> "regex", shape |-> "suffix",
     words |-> {W_png, W_jpg, W_jpeg, W_gif, W_svg, W_webp, W_avif}, icase |-> TRUE]
WebpInclude == [t |-> "regex", shape |-> "suffix", words |-> {W_webp}, icase |-> FALSE]
TxtInclude == [t |-> "regex", shape |-> "suffix", words |-> {W_txt, W_svg, W_jpg}, icase |-> TRUE]
ExcludedExclude == [t |-> "regex", shape |-> "word", word |-> W_excluded]
\* /a/: an include that lets every extension through, and none
ClassifyInclude == [t |-> "regex", shape |-> "word", word |-> <<"a">>]

\* RegExp.prototype.test, tabulated over the patterns and paths of the model
KnownPatterns == {DefaultInclude, WebpInclude, TxtInclude, ExcludedExclude, ClassifyInclude}

RegexTestOf == [re \in KnownPatterns |-> [p \in AllPaths |-> RegexMatch(re, p)]]

RegexTest(re, p) == RegexTestOf[re][p]

\* path.extname(fileName).toLowerCase(), tabulated over the paths of the model
LowerExtOf == [p \in AllPaths |-> ToLowerCase(ExtName(p))]

\* createFilter(include, exclude) of @rollup/pluginutils: a set of patterns on
\* each side, undefined being no pattern
Patterns(x) == IF x.t = "undefined" THEN {} ELSE {x}

createFilter(include, exclude, id) ==
    IF \E re \in Patterns(exclude) : RegexTest(re, id) THEN FALSE
    ELSE IF \E re \in Patterns(include) : RegexTest(re, id) THEN TRUE
    ELSE Patterns(include) = {}

\* ---------------------------------------------------------------- options
\* A JavaScript object is a function from its own keys; {...a, ...b}
Spread(a, b) == [k \in (DOMAIN a) \cup (DOMAIN b) |-> IF k \in DOMAIN b THEN b[k] ELSE a[k]]

EmptyObject == [k \in {} |-> Undefined]

\* a sharp options record: kv is its set of <<key, value>> pairs
Obj(kv) == [t |-> "object", kv |-> kv]

defaultSharpOptions ==
    [jpeg |-> Obj({<<"quality", 75>>}),
     png |-> Obj({<<"quality", 75>>, <<"compressionLevel", 6>>}),
     webp |-> Obj({<<"quality", 75>>}),
     gif |-> Obj({}),
     avif |-> Obj({<<"quality", 50>>})]

defaultOptions ==
    [include |-> DefaultInclude,
     exclude |-> Undefined,
     sharpOptions |-> defaultSharpOptions,
     log |-> TRUE]

\* userOptions.sharpOptions || {}
UserSharpOptions(userOptions) ==
    IF "sharpOptions" \in DOMAIN userOptions THEN userOptions.sharpOptions ELSE EmptyObject

MergeOptions(userOptions) ==
    Spread(Spread(defaultOptions, userOptions),
           [sharpOptions |-> Spread(defaultOptions.sharpOptions, UserSharpOptions(userOptions))])

\* the configurations a caller is drawn from
FilterChoices ==
    {[include |-> WebpInclude, exclude |-> ExcludedExclude],
     [include |-> TxtInclude]}
LogChoices == {EmptyObject, [log |-> FALSE]}
SharpChoices ==
    {[sharpOptions |-> [gif |-> Obj({<<"colours", 64>>})]],
     [sharpOptions |-> [jpeg |-> Obj({}), png |-> Undefined]],
     [sharpOptions |-> [jpeg |-> Obj({<<"quality", 90>>}),
                        png |-> Obj({<<"quality", 80>>, <<"compressionLevel", 8>>})]]}

UserOptionsSet == LogChoices \cup FilterChoices \cup SharpChoices

\* --------------------------------------------------------------- sources
\* the characters of a string source: "a" is one byte in UTF-8, "U+00E9" two
Utf8Bytes(c) == IF c = "a" THEN 1 ELSE 2

RECURSIVE Utf8Length(_)
Utf8Length(s) == IF s = <<>> THEN 0 ELSE Utf8Bytes(Head(s)) + Utf8Length(Tail(s))

Buf(origin, len) == [t |-> "bytes", origin |-> origin, len |-> len]
Str(chars) == [t |-> "string", chars |-> chars]

\* The entries a bundle is drawn from: an asset with bytes under every path,
\* and under some paths an asset with text, an asset whose source is neither
\* text nor bytes, and a chunk (which has code and no source)
TextPaths == {P_a_jpg, P_f_svg, P_h_txt}
OtherSourcePaths == {P_a_jpg, P_excluded_webp}
ChunkPaths == {P_a_jpg}

Entries ==
    {[fileName |-> p, type |-> "asset", source |-> Buf("source", n)] :
        p \in Paths, n \in 1..MaxSize}
    \cup {[fileName |-> p, type |-> "asset", source |-> Str(<<"a", "U+00E9">>)] :
             p \in TextPaths}
    \cup {[fileName |-> p, type |-> "asset", source |-> [t |-> "other"]] :
             p \in OtherSourcePaths}
    \cup {[fileName |-> p, type |-> "chunk", source |-> Undefined] : p \in ChunkPaths}

\* Object.entries(bundle): the keys of an object are distinct and come in one
\* order, here that of PathOrder
PathIndex(p) == CHOOSE i \in DOMAIN PathOrder : PathOrder[i] = p

Bundles ==
    {b \in UNION {[1..n -> Entries] : n \in 1..MaxAssets} :
        \A j, k \in DOMAIN b : j < k => PathIndex(b[j].fileName) < PathIndex(b[k].fileName)}

\* ----------------------------------------------------------------- state
VARIABLES
    bundle,          \* the bundle of generateBundle: a sequence of entries
    bundle0,         \* the bundle as it was handed to generateBundle
    options,         \* the merged options of the plugin instance
    processedFiles,  \* Map fileName -> [originalSize, compressedSize]
    pc,              \* "idle", "loop", "await", "done": where generateBundle is
    idx,             \* the entry the for-loop is at
    task,            \* per entry: the task's state and the values its closure holds
    sharpCalls,      \* per entry: number of sharp(sourceBuffer) calls
    encodeCalls,     \* per entry: the calls <<format, options>> of an encoder
    encoded,         \* per entry: what toBuffer gave, a Buffer or [t |-> "threw"]
    writes,          \* per fileName: number of processedFiles.set calls
    logs,            \* the logger's calls: how many times each message was emitted
    report,          \* what the last closeBundle that printed has printed
    repeats,         \* how many times generateBundle has been called again
    previous         \* the bundle and the ledger as the call before left them

vars == <<bundle, bundle0, options, processedFiles, pc, idx, task, sharpCalls,
          encodeCalls, encoded, writes, logs, report, repeats, previous>>

None == [t |-> "none"]
Threw == [t |-> "threw"]

\* a task: st is "none" (not created), "awaiting" (suspended at toBuffer) or
\* "settled" (its promise is resolved)
NoTask == [st |-> "none"]
Settled == [st |-> "settled"]
Awaiting(fileName, sourceBuffer, originalSize, formatSpecificOptions) ==
    [st |-> "awaiting", fileName |-> fileName, sourceBuffer |-> sourceBuffer,
     originalSize |-> originalSize, formatSpecificOptions |-> formatSpecificOptions]

N == Len(bundle)

Init ==
    /\ bundle \in Bundles
    /\ bundle0 = bundle
    /\ options \in {MergeOptions(u) : u \in UserOptionsSet}
    /\ processedFiles = [f \in {} |-> None]
    /\ pc = "idle"
    /\ idx = 0
    /\ task = [k \in DOMAIN bundle |-> NoTask]
    /\ sharpCalls = [k \in DOMAIN bundle |-> 0]
    /\ encodeCalls = [k \in DOMAIN bundle |-> <<>>]
    /\ encoded = [k \in DOMAIN bundle |-> None]
    /\ writes = [f \in Paths |-> 0]
    /\ logs = [m \in {} |-> 0]
    /\ report = None
    /\ repeats = 0
    /\ previous = None

\* ------------------------------------------------------ helpers of the hooks
Log(level, msg, fileName) == [level |-> level, msg |-> msg, file |-> fileName]

\* one more call of the logger
Emit(l, m) ==
    [x \in (DOMAIN l) \cup {m} |->
        IF x = m THEN (IF m \in DOMAIN l THEN l[m] + 1 ELSE 1) ELSE l[x]]

MapSetLastWriterWins(m, fileName, originalSize, compressedSize) ==
    [f \in {fileName} |->
        [originalSize |-> originalSize, compressedSize |-> compressedSize]]

\* processedFiles.set(fileName, {originalSize, compressedSize})
MapSet(m, fileName, originalSize, compressedSize) ==
    [f \in (DOMAIN m) \cup {fileName} |->
        IF f = fileName
        THEN [originalSize |-> originalSize, compressedSize |-> compressedSize]
        ELSE m[f]]

PassesFilterIgnoringExclude(e) ==
    /\ e.type = "asset"
    /\ createFilter(options.include, Undefined, e.fileName)

\* line 109: assetInfo.type !== 'asset' || !filter(fileName)
PassesFilter(e) ==
    /\ e.type = "asset"
    /\ createFilter(options.include, options.exclude, e.fileName)

\* lines 115, 118: typeof source === 'string', source instanceof Uint8Array
IsRecognizedSource(src) == src.t \in {"string", "bytes"}

SourceLengthInCharacters(src) == IF src.t = "string" THEN Len(src.chars) ELSE src.len

\* lines 116, 119, 125: sourceBuffer.byteLength
SourceByteLength(src) == IF src.t = "string" THEN Utf8Length(src.chars) ELSE src.len

ExtAsWritten(fileName) == ExtName(fileName)

\* line 126
LowerExt(fileName) == LowerExtOf[fileName]

FormatOfFallsBackToJpeg(ext) ==
    CASE ext = Ext(W_png) -> "png"
      [] ext = Ext(W_webp) -> "webp"
      [] ext = Ext(W_gif) -> "gif"
      [] ext = Ext(W_avif) -> "avif"
      [] OTHER -> "jpeg"

FormatOfJpgOnly(ext) ==
    CASE ext = Ext(W_jpg) -> "jpeg"
      [] ext = Ext(W_png) -> "png"
      [] ext = Ext(W_webp) -> "webp"
      [] ext = Ext(W_gif) -> "gif"
      [] ext = Ext(W_avif) -> "avif"
      [] OTHER -> "default"

\* the switch of lines 152-193: the encoder an extension selects
FormatOf(ext) ==
    CASE ext = Ext(W_jpg) -> "jpeg"
      [] ext = Ext(W_jpeg) -> "jpeg"
      [] ext = Ext(W_png) -> "png"
      [] ext = Ext(W_webp) -> "webp"
      [] ext = Ext(W_gif) -> "gif"
      [] ext = Ext(W_avif) -> "avif"
      [] OTHER -> "default"

\* options.sharpOptions?.jpeg, ...
FormatSpecificOptions(format) ==
    IF format \in DOMAIN options.sharpOptions THEN options.sharpOptions[format] ELSE Undefined

OptionsPresent(o) == o.t = "object"

\* formatSpecificOptions && Object.keys(formatSpecificOptions).length > 0
OptionsUsable(o) == o.t = "object" /\ Cardinality(o.kv) > 0

NewSizeDiffers(newSize, originalSize) == newSize # originalSize

NewSizeNotLarger(newSize, originalSize) == newSize <= originalSize

\* line 204
NewSizeSmaller(newSize, originalSize) == newSize < originalSize

\* lines 196-201: without an encoder's output the source counts as the output
EffectiveBufferKeepsSource(sourceBuffer, compressedBuffer) == sourceBuffer

EffectiveBuffer(sourceBuffer, compressedBuffer) ==
    IF compressedBuffer = None THEN sourceBuffer ELSE compressedBuffer

EffectiveSize(originalSize, compressedBuffer) ==
    IF compressedBuffer = None THEN originalSize ELSE compressedBuffer.len

SizeGateLogsEveryTie(k, fileName, sourceBuffer, originalSize, formatSpecificOptions, compressedBuffer) ==
    LET buffer == EffectiveBuffer(sourceBuffer, compressedBuffer)
        newSize == EffectiveSize(originalSize, compressedBuffer)
    IN IF NewSizeSmaller(newSize, originalSize)
       THEN /\ bundle' = [bundle EXCEPT ![k].source = buffer]
            /\ processedFiles' = MapSet(processedFiles, fileName, originalSize, newSize)
            /\ logs' = logs
       ELSE /\ bundle' = bundle
            /\ logs' = IF options.log /\ newSize > originalSize
                        THEN Emit(logs, Log("info", "not-smaller", fileName))
                       ELSE IF options.log /\ newSize = originalSize
                        THEN Emit(logs, Log("info", "size-unchanged", fileName))
                       ELSE logs
            /\ processedFiles' = MapSet(processedFiles, fileName, originalSize, originalSize)

SizeGateRecordsNewSize(k, fileName, sourceBuffer, originalSize, formatSpecificOptions, compressedBuffer) ==
    LET buffer == EffectiveBuffer(sourceBuffer, compressedBuffer)
        newSize == EffectiveSize(originalSize, compressedBuffer)
    IN IF NewSizeSmaller(newSize, originalSize)
       THEN /\ bundle' = [bundle EXCEPT ![k].source = buffer]
            /\ processedFiles' = MapSet(processedFiles, fileName, originalSize, newSize)
            /\ logs' = logs
       ELSE /\ bundle' = bundle
            /\ logs' = IF options.log /\ newSize > originalSize
                        THEN Emit(logs, Log("info", "not-smaller", fileName))
                       ELSE IF options.log /\ newSize = originalSize
                               /\ OptionsUsable(formatSpecificOptions)
                        THEN Emit(logs, Log("info", "size-unchanged", fileName))
                       ELSE logs
            /\ processedFiles' = MapSet(processedFiles, fileName, originalSize, newSize)

\* lines 196-218: the size gate and the ledger entry of entry k's task.
\* compressedBuffer is None when no encoder ran (null in the code).
SizeGate(k, fileName, sourceBuffer, originalSize, formatSpecificOptions, compressedBuffer) ==
    LET buffer == EffectiveBuffer(sourceBuffer, compressedBuffer)
        newSize == EffectiveSize(originalSize, compressedBuffer)
    IN IF NewSizeSmaller(newSize, originalSize)
       THEN /\ bundle' = [bundle EXCEPT ![k].source = buffer]
            /\ processedFiles' = MapSet(processedFiles, fileName, originalSize, newSize)
            /\ logs' = logs
       ELSE /\ bundle' = bundle
            /\ logs' = IF options.log /\ newSize > originalSize
                        THEN Emit(logs, Log("info", "not-smaller", fileName))
                       ELSE IF options.log /\ newSize = originalSize
                               /\ OptionsUsable(formatSpecificOptions)
                        THEN Emit(logs, Log("info", "size-unchanged", fileName))
                       ELSE logs
            /\ processedFiles' = MapSet(processedFiles, fileName, originalSize, originalSize)

CatchBlockRecordsNewSize(k, fileName, originalSize) ==
    /\ logs' = Emit(logs, Log("error", "processing-error", fileName))
    /\ processedFiles' = MapSet(processedFiles, fileName, originalSize, 0)
    /\ bundle' = bundle

CatchBlockNoEntry(k, fileName, originalSize) ==
    /\ logs' = Emit(logs, Log("error", "processing-error", fileName))
    /\ processedFiles' = processedFiles
    /\ bundle' = bundle

\* lines 220-223: the catch block of entry k's task
CatchBlock(k, fileName, originalSize) ==
    /\ logs' = Emit(logs, Log("error", "processing-error", fileName))
    /\ processedFiles' = MapSet(processedFiles, fileName, originalSize, originalSize)
    /\ bundle' = bundle

CountWrite(fileName) == writes' = [writes EXCEPT ![fileName] = @ + 1]

\* ------------------------------------------------ generateBundle: the loop
\* lines 104-106
generateBundle ==
    /\ pc = "idle"
    /\ pc' = "loop"
    /\ idx' = 1
    /\ UNCHANGED <<bundle, bundle0, options, processedFiles, task, sharpCalls,
                   encodeCalls, encoded, writes, logs, report,
                   repeats, previous>>

InLoop == pc = "loop" /\ idx \in 1..N

\* lines 109-111
LoopSkipFiltered ==
    /\ InLoop
    /\ ~PassesFilter(bundle[idx])
    /\ idx' = idx + 1
    /\ UNCHANGED <<bundle, bundle0, options, processedFiles, pc, task, sharpCalls,
                   encodeCalls, encoded, writes, logs, report,
                   repeats, previous>>

LoopSkipUnknownSourceBeforeFilter ==
    /\ InLoop
    /\ bundle[idx].type = "asset"
    /\ ~IsRecognizedSource(bundle[idx].source)
    /\ logs' = Emit(logs, Log("warn", "unknown-source", bundle[idx].fileName))
    /\ idx' = idx + 1
    /\ UNCHANGED <<bundle, bundle0, options, processedFiles, pc, task, sharpCalls,
                   encodeCalls, encoded, writes, report,
                   repeats, previous>>

\* lines 120-123
LoopSkipUnknownSource ==
    /\ InLoop
    /\ PassesFilter(bundle[idx])
    /\ ~IsRecognizedSource(bundle[idx].source)
    /\ logs' = Emit(logs, Log("warn", "unknown-source", bundle[idx].fileName))
    /\ idx' = idx + 1
    /\ UNCHANGED <<bundle, bundle0, options, processedFiles, pc, task, sharpCalls,
                   encodeCalls, encoded, writes, report,
                   repeats, previous>>

\* an entry that reaches line 125
Reaches125 ==
    /\ InLoop
    /\ PassesFilter(bundle[idx])
    /\ IsRecognizedSource(bundle[idx].source)

IsSvg(fileName) == LowerExt(fileName) = Ext(W_svg)

\* lines 126-193: what a path is taken for: "svg", an encoder's name, or
\* "default" (the default case of the switch)
Kind(fileName) == IF IsSvg(fileName) THEN "svg" ELSE FormatOf(LowerExt(fileName))

LoopSvgRecordsOnlyWhenLogging ==
    /\ Reaches125
    /\ IsSvg(bundle[idx].fileName)
    /\ LET fileName == bundle[idx].fileName
           originalSize == SourceByteLength(bundle[idx].source)
       IN IF options.log
          THEN /\ logs' = Emit(logs, Log("info", "skip-svg", fileName))
               /\ processedFiles' = MapSet(processedFiles, fileName, originalSize, originalSize)
               /\ CountWrite(fileName)
          ELSE UNCHANGED <<logs, processedFiles, writes>>
    /\ idx' = idx + 1
    /\ UNCHANGED <<bundle, bundle0, options, pc, task, sharpCalls, encodeCalls, encoded,
                   report,
                   repeats, previous>>

\* lines 128-135
LoopSvg ==
    /\ Reaches125
    /\ IsSvg(bundle[idx].fileName)
    /\ LET fileName == bundle[idx].fileName
           originalSize == SourceByteLength(bundle[idx].source)
       IN /\ logs' = IF options.log THEN Emit(logs, Log("info", "skip-svg", fileName))
                      ELSE logs
          /\ processedFiles' = MapSet(processedFiles, fileName, originalSize, originalSize)
          /\ CountWrite(fileName)
    /\ idx' = idx + 1
    /\ UNCHANGED <<bundle, bundle0, options, pc, task, sharpCalls, encodeCalls, encoded,
                   report,
                   repeats, previous>>

LoopStringNonSvgLogGated ==
    /\ InLoop
    /\ PassesFilter(bundle[idx])
    /\ IsRecognizedSource(bundle[idx].source)
    /\ LowerExt(bundle[idx].fileName) # Ext(W_svg)
    /\ bundle[idx].source.t = "string"
    /\ LET fileName == bundle[idx].fileName
           originalSize == SourceByteLength(bundle[idx].source)
       IN /\ logs' = IF options.log
                      THEN Emit(logs, Log("warn", "string-non-svg", fileName))
                      ELSE logs
          /\ processedFiles' = MapSet(processedFiles, fileName, originalSize, originalSize)
          /\ writes' = [writes EXCEPT ![fileName] = @ + 1]
    /\ idx' = idx + 1
    /\ UNCHANGED <<bundle, bundle0, options, pc, task, sharpCalls, encodeCalls, encoded,
                   report,
                   repeats, previous>>

\* lines 138-143
LoopStringNonSvg ==
    /\ Reaches125
    /\ ~IsSvg(bundle[idx].fileName)
    /\ bundle[idx].source.t = "string"
    /\ LET fileName == bundle[idx].fileName
           originalSize == SourceByteLength(bundle[idx].source)
       IN /\ logs' = Emit(logs, Log("warn", "string-non-svg", fileName))
          /\ processedFiles' = MapSet(processedFiles, fileName, originalSize, originalSize)
          /\ CountWrite(fileName)
    /\ idx' = idx + 1
    /\ UNCHANGED <<bundle, bundle0, options, pc, task, sharpCalls, encodeCalls, encoded,
                   report,
                   repeats, previous>>

\* an entry for which task() is called, line 226
SpawnsTask ==
    /\ Reaches125
    /\ ~IsSvg(bundle[idx].fileName)
    /\ bundle[idx].source.t = "bytes"

\* ------------------------------- the task of an entry, up to its first await
\* line 150 throws: sharp(sourceBuffer) rejects its input; lines 220-223
TaskSharpThrows ==
    /\ SpawnsTask
    /\ LET fileName == bundle[idx].fileName
           originalSize == SourceByteLength(bundle[idx].source)
       IN /\ CatchBlock(idx, fileName, originalSize)
          /\ CountWrite(fileName)
    /\ sharpCalls' = [sharpCalls EXCEPT ![idx] = @ + 1]
    /\ task' = [task EXCEPT ![idx] = Settled]
    /\ idx' = idx + 1
    /\ UNCHANGED <<bundle0, options, pc, encodeCalls, encoded, report, repeats, previous>>

\* lines 186-192: the default case of the switch
TaskUnsupported ==
    /\ SpawnsTask
    /\ FormatOf(LowerExt(bundle[idx].fileName)) = "default"
    /\ LET fileName == bundle[idx].fileName
           originalSize == SourceByteLength(bundle[idx].source)
       IN /\ logs' = IF options.log
                      THEN Emit(logs, Log("info", "skip-unsupported", fileName))
                      ELSE logs
          /\ processedFiles' = MapSet(processedFiles, fileName, originalSize, originalSize)
          /\ CountWrite(fileName)
    /\ sharpCalls' = [sharpCalls EXCEPT ![idx] = @ + 1]
    /\ task' = [task EXCEPT ![idx] = Settled]
    /\ idx' = idx + 1
    /\ UNCHANGED <<bundle, bundle0, options, pc, encodeCalls, encoded, report, repeats, previous>>

\* a case of the switch whose options are absent or have no keys: no await,
\* the task runs through lines 196-218 inside the loop iteration
TaskNoOptions ==
    /\ SpawnsTask
    /\ LET fileName == bundle[idx].fileName
           sourceBuffer == Buf("source", SourceByteLength(bundle[idx].source))
           originalSize == SourceByteLength(bundle[idx].source)
           format == FormatOf(LowerExt(fileName))
           formatSpecificOptions == FormatSpecificOptions(format)
       IN /\ format # "default"
          /\ ~OptionsUsable(formatSpecificOptions)
          /\ SizeGate(idx, fileName, sourceBuffer, originalSize, formatSpecificOptions, None)
          /\ CountWrite(fileName)
    /\ sharpCalls' = [sharpCalls EXCEPT ![idx] = @ + 1]
    /\ task' = [task EXCEPT ![idx] = Settled]
    /\ idx' = idx + 1
    /\ UNCHANGED <<bundle0, options, pc, encodeCalls, encoded, report, repeats, previous>>

\* a case of the switch with options: sharpInstance.<format>(options).toBuffer()
\* is called and the task suspends at the await (lines 157, 163, 169, 177, 183)
TaskEncode ==
    /\ SpawnsTask
    /\ LET fileName == bundle[idx].fileName
           sourceBuffer == Buf("source", SourceByteLength(bundle[idx].source))
           originalSize == SourceByteLength(bundle[idx].source)
           format == FormatOf(LowerExt(fileName))
           formatSpecificOptions == FormatSpecificOptions(format)
       IN /\ format # "default"
          /\ OptionsUsable(formatSpecificOptions)
          /\ encodeCalls' = [encodeCalls EXCEPT
                                ![idx] = Append(@, <<format, formatSpecificOptions>>)]
          /\ task' = [task EXCEPT ![idx] =
                         Awaiting(fileName, sourceBuffer, originalSize, formatSpecificOptions)]
    /\ sharpCalls' = [sharpCalls EXCEPT ![idx] = @ + 1]
    /\ idx' = idx + 1
    /\ UNCHANGED <<bundle, bundle0, options, processedFiles, pc, encoded, writes, logs,
                   report,
                   repeats, previous>>

\* line 227 -> 229: the loop is over, generateBundle awaits Promise.all
LoopExit ==
    /\ pc = "loop"
    /\ idx > N
    /\ pc' = "await"
    /\ UNCHANGED <<bundle, bundle0, options, processedFiles, idx, task, sharpCalls,
                   encodeCalls, encoded, writes, logs, report,
                   repeats, previous>>

\* ------------------------------------------- continuations after the await
\* A continuation runs once the synchronous loop has given up the thread,
\* whether or not generateBundle itself has returned by then.
ToBufferResolvesAgain(k, n) ==
    /\ pc \in {"await", "done"}
    /\ task[k].st = "awaiting"
    /\ encoded' = [encoded EXCEPT ![k] = Buf("sharp", n)]
    /\ SizeGate(k, task[k].fileName, task[k].sourceBuffer, task[k].originalSize,
                task[k].formatSpecificOptions, Buf("sharp", n))
    /\ CountWrite(task[k].fileName)
    /\ task' = task
    /\ UNCHANGED <<bundle0, options, pc, idx, sharpCalls, encodeCalls, report, repeats, previous>>

\* toBuffer() resolves with a Buffer of n bytes: lines 196-218
ToBufferResolves(k, n) ==
    /\ pc \in {"await", "done"}
    /\ task[k].st = "awaiting"
    /\ encoded' = [encoded EXCEPT ![k] = Buf("sharp", n)]
    /\ SizeGate(k, task[k].fileName, task[k].sourceBuffer, task[k].originalSize,
                task[k].formatSpecificOptions, Buf("sharp", n))
    /\ CountWrite(task[k].fileName)
    /\ task' = [task EXCEPT ![k] = Settled]
    /\ UNCHANGED <<bundle0, options, pc, idx, sharpCalls, encodeCalls, report, repeats, previous>>

\* toBuffer() rejects: lines 220-223
ToBufferRejects(k) ==
    /\ pc \in {"await", "done"}
    /\ task[k].st = "awaiting"
    /\ encoded' = [encoded EXCEPT ![k] = Threw]
    /\ CatchBlock(k, task[k].fileName, task[k].originalSize)
    /\ CountWrite(task[k].fileName)
    /\ task' = [task EXCEPT ![k] = Settled]
    /\ UNCHANGED <<bundle0, options, pc, idx, sharpCalls, encodeCalls, report, repeats, previous>>

AnySettled == \E k \in DOMAIN task : task[k].st = "settled"

\* Promise.all(processingPromises) resolves when every promise has
AllSettled == \A k \in DOMAIN task : task[k].st # "awaiting"

PromiseAllFailFast ==
    /\ pc = "await"
    /\ AllSettled
    /\ \A k \in DOMAIN task : encoded[k] # Threw
    /\ pc' = "done"
    /\ UNCHANGED <<bundle, bundle0, options, processedFiles, idx, task, sharpCalls,
                   encodeCalls, encoded, writes, logs, report,
                   repeats, previous>>

\* line 229
PromiseAll ==
    /\ pc = "await"
    /\ AllSettled
    /\ pc' = "done"
    /\ UNCHANGED <<bundle, bundle0, options, processedFiles, idx, task, sharpCalls,
                   encodeCalls, encoded, writes, logs, report,
                   repeats, previous>>

\* ------------------------------------------------------------- closeBundle
RECURSIVE SumOver(_, _, _)
SumOver(m, field, keys) ==
    IF keys = {} THEN 0
    ELSE LET f == CHOOSE x \in keys : TRUE
         IN m[f][field] + SumOver(m, field, keys \ {f})

\* lines 252-261
Status(fileName, sizeChange) ==
    IF LowerExt(fileName) = Ext(W_svg) THEN "skipped-svg"
    ELSE IF sizeChange > 0 THEN "compressed"
    ELSE IF sizeChange = 0 THEN "unchanged-or-skipped"
    ELSE "error-or-not-compressed"

\* lines 244-272: one row of tableData
Row(fileName, sizes) ==
    [File |-> fileName,
     originalSize |-> sizes.originalSize,
     compressedSize |-> sizes.compressedSize,
     sizeChange |-> sizes.originalSize - sizes.compressedSize,
     Status |-> Status(fileName, sizes.originalSize - sizes.compressedSize)]

\* lines 232-325: the header (line 237), the table and the totals (line 320)
closeBundle ==
    /\ pc \in {"idle", "done"}
    /\ IF ~options.log \/ DOMAIN processedFiles = {}
       THEN report' = report
       ELSE LET totalOriginalSize ==
                    SumOver(processedFiles, "originalSize", DOMAIN processedFiles)
                totalCompressedSize ==
                    SumOver(processedFiles, "compressedSize", DOMAIN processedFiles)
            IN report' =
                  [t |-> "report",
                   rows |-> [f \in DOMAIN processedFiles |-> Row(f, processedFiles[f])],
                   totalOriginalSize |-> totalOriginalSize,
                   totalCompressedSize |-> totalCompressedSize,
                   totalSavings |-> totalOriginalSize - totalCompressedSize]
    /\ UNCHANGED <<bundle, bundle0, options, processedFiles, pc, idx, task, sharpCalls,
                   encodeCalls, encoded, writes, logs,
                   repeats, previous>>

\* ------------------------------------------------------------ specification
EncodedSizes == 0..(MaxSize + 1)

Next ==
    \/ generateBundle
    \/ LoopSkipFiltered
    \/ LoopSkipUnknownSource
    \/ LoopSvg
    \/ LoopStringNonSvg
    \/ TaskSharpThrows
    \/ TaskUnsupported
    \/ TaskNoOptions
    \/ TaskEncode
    \/ LoopExit
    \/ \E k \in DOMAIN task, n \in EncodedSizes : ToBufferResolves(k, n)
    \/ \E k \in DOMAIN task : ToBufferRejects(k)
    \/ PromiseAll
    \/ closeBundle

Spec == Init /\ [][Next]_vars

\* ------------------------------------------------------------- scheduling
\* The for loop of lines 108-227 is synchronous code: once generateBundle is
\* called it runs to line 229 without giving up the thread.
LoopStep ==
    \/ LoopSkipFiltered
    \/ LoopSkipUnknownSource
    \/ LoopSvg
    \/ LoopStringNonSvg
    \/ TaskSharpThrows
    \/ TaskUnsupported
    \/ TaskNoOptions
    \/ TaskEncode
    \/ LoopExit

\* the promise of toBuffer() of entry k's task settles and the task goes on
CodecReturns(k) ==
    /\ k \in DOMAIN task
    /\ \/ \E n \in EncodedSizes : ToBufferResolves(k, n)
       \/ ToBufferRejects(k)

\* The encoder call that is allowed never to return: nothing in the code
\* (no timeout, no cancellation) bounds the await of lines 157-183.  It is
\* taken to be the call on b.PNG, which comes first in some bundles and
\* second in others.
MayHang(k) == k \in DOMAIN bundle0 /\ bundle0[k].fileName = P_b_PNG

\* the configurations of the runs with a hanging call: the default one and
\* one whose include lets an unsupported extension through
InitHang ==
    /\ Init
    /\ options \in {MergeOptions(EmptyObject), MergeOptions([include |-> TxtInclude])}
    /\ \E k \in DOMAIN bundle : MayHang(k)
    /\ \A k \in DOMAIN bundle : bundle[k].source.t = "bytes" => bundle[k].source.len = MaxSize

\* The event loop runs a continuation once its promise has settled, and
\* Promise.all resolves once every promise has; every encoder call but the
\* one that may hang returns or throws.
SpecHang ==
    /\ InitHang
    /\ [][Next]_vars
    /\ WF_vars(LoopStep)
    /\ \A k \in 1..MaxAssets : WF_vars(~MayHang(k) /\ CodecReturns(k))
    /\ WF_vars(PromiseAll)

\* ---------------------------------------------------------- classification
\* The hooks on a bundle of one entry whose path is drawn from ClassifyPaths,
\* under an include that lets every one of them through.
ClassifyTextPaths ==
    {WithSuffix(<<"a", "/">>, <<"b">>, w, "lower") : w \in {W_svg, W_jpg}}
ClassifyOtherSourcePaths == {WithSuffix(<<"a", "/">>, <<"b">>, W_png, "lower")}
ClassifyChunkPaths == {WithSuffix(<<"a", "/">>, <<"b">>, W_jpg, "lower")}

ClassifyEntries ==
    {[fileName |-> p, type |-> "asset", source |-> Buf("source", n)] :
        p \in ClassifyPaths, n \in 1..MaxSize}
    \cup {[fileName |-> p, type |-> "asset", source |-> Str(<<"a", "U+00E9">>)] :
             p \in ClassifyTextPaths}
    \cup {[fileName |-> p, type |-> "asset", source |-> [t |-> "other"]] :
             p \in ClassifyOtherSourcePaths}
    \cup {[fileName |-> p, type |-> "chunk", source |-> Undefined] :
             p \in ClassifyChunkPaths}

ClassifyOptions ==
    {[include |-> ClassifyInclude],
     [include |-> ClassifyInclude, sharpOptions |-> [gif |-> Obj({<<"colours", 64>>})]]}

InitClassify ==
    /\ bundle \in {<<e>> : e \in ClassifyEntries}
    /\ bundle0 = bundle
    /\ options \in {MergeOptions(u) : u \in ClassifyOptions}
    /\ processedFiles = [f \in {} |-> None]
    /\ pc = "idle"
    /\ idx = 0
    /\ task = [k \in DOMAIN bundle |-> NoTask]
    /\ sharpCalls = [k \in DOMAIN bundle |-> 0]
    /\ encodeCalls = [k \in DOMAIN bundle |-> <<>>]
    /\ encoded = [k \in DOMAIN bundle |-> None]
    /\ writes = [f \in ClassifyPaths |-> 0]
    /\ logs = [m \in {} |-> 0]
    /\ report = None
    /\ repeats = 0
    /\ previous = None

SpecClassify == InitClassify /\ [][Next]_vars

\* ---------------------------------------------------------- repeated calls
\* processedFiles (line 93) belongs to the plugin instance: a build that
\* writes several outputs, or a rebuild, calls generateBundle again on the
\* same instance, with the bundle object of the call before or with another.
\* processingPromises (line 106) is new in every call.
\* The entries of the bundles of repeated calls: bytes of the largest size
\* under four paths, and under a.jpg also text and a source of another type
RepeatPaths == {P_a_jpg, P_d_gif, P_f_svg, P_h_txt}

RepeatEntries ==
    {[fileName |-> p, type |-> "asset", source |-> Buf("source", MaxSize)] :
        p \in RepeatPaths}
    \cup {[fileName |-> P_a_jpg, type |-> "asset", source |-> Str(<<"a", "U+00E9">>)],
          [fileName |-> P_a_jpg, type |-> "asset", source |-> [t |-> "other"]]}

LaterBundles == {<<e>> : e \in RepeatEntries}

generateBundleAgainOnNewLedger ==
    /\ pc = "done"
    /\ repeats < MaxRepeats
    /\ bundle' \in {bundle} \cup LaterBundles
    /\ bundle0' = bundle'
    /\ previous' = [t |-> "previous", bundle |-> bundle, ledger |-> processedFiles]
    /\ repeats' = repeats + 1
    /\ pc' = "loop"
    /\ idx' = 1
    /\ task' = [k \in DOMAIN bundle' |-> NoTask]
    /\ sharpCalls' = [k \in DOMAIN bundle' |-> 0]
    /\ encodeCalls' = [k \in DOMAIN bundle' |-> <<>>]
    /\ encoded' = [k \in DOMAIN bundle' |-> None]
    /\ writes' = [f \in Paths |-> 0]
    /\ processedFiles' = [f \in {} |-> None]
    /\ UNCHANGED <<options, logs, report>>

generateBundleAgain ==
    /\ pc = "done"
    /\ repeats < MaxRepeats
    /\ bundle' \in {bundle} \cup LaterBundles
    /\ bundle0' = bundle'
    /\ previous' = [t |-> "previous", bundle |-> bundle, ledger |-> processedFiles]
    /\ repeats' = repeats + 1
    /\ pc' = "loop"
    /\ idx' = 1
    /\ task' = [k \in DOMAIN bundle' |-> NoTask]
    /\ sharpCalls' = [k \in DOMAIN bundle' |-> 0]
    /\ encodeCalls' = [k \in DOMAIN bundle' |-> <<>>]
    /\ encoded' = [k \in DOMAIN bundle' |-> None]
    /\ writes' = [f \in Paths |-> 0]
    /\ UNCHANGED <<options, processedFiles, logs, report>>

NextRepeat == Next \/ generateBundleAgain

\* the first call, under the default configuration or a custom include
InitRepeat ==
    /\ Init
    /\ options \in {MergeOptions(EmptyObject), MergeOptions([include |-> TxtInclude])}
    /\ \A k \in DOMAIN bundle : bundle[k] \in RepeatEntries

SpecRepeat == InitRepeat /\ [][NextRepeat]_vars

\* ------------------------------------------------- vocabulary of the claims
\* entry k has been through its loop iteration
Processed(k) == idx > k

Logged(level, msg, fileName) ==
    Log(level, msg, fileName) \in DOMAIN logs

InLedger(fileName) == fileName \in DOMAIN processedFiles

Unchanged(k) == bundle[k] = bundle0[k]

\* the byte length of an entry's original content
OriginalBytes(k) ==
    IF bundle0[k].source.t = "string" THEN Utf8Length(bundle0[k].source.chars)
    ELSE bundle0[k].source.len

KeptOriginalSize(k) ==
    /\ InLedger(bundle0[k].fileName)
    /\ processedFiles[bundle0[k].fileName] =
         [originalSize |-> OriginalBytes(k), compressedSize |-> OriginalBytes(k)]

\* the filter as the specification words it: an asset whose path matches
\* include and does not match exclude
MatchesInclude(fileName) ==
    options.include.t = "undefined" \/ RegexTest(options.include, fileName)

MatchesExclude(fileName) ==
    options.exclude.t # "undefined" /\ RegexTest(options.exclude, fileName)

IsCandidate(k) ==
    /\ bundle0[k].type = "asset"
    /\ MatchesInclude(bundle0[k].fileName)
    /\ ~MatchesExclude(bundle0[k].fileName)

HasText(k) == bundle0[k].type = "asset" /\ bundle0[k].source.t = "string"
HasBytes(k) == bundle0[k].type = "asset" /\ bundle0[k].source.t = "bytes"
HasUnknown(k) == bundle0[k].type = "asset" /\ bundle0[k].source.t = "other"

SvgExt(k) == LowerExtOf[bundle0[k].fileName] = <<".", "s", "v", "g">>

\* the raster kind of an entry, by its lowercased extension; "none" otherwise
RasterKind(k) ==
    LET ext == LowerExtOf[bundle0[k].fileName]
    IN CASE ext \in {<<".", "j", "p", "g">>, <<".", "j", "p", "e", "g">>} -> "jpeg"
         [] ext = <<".", "p", "n", "g">> -> "png"
         [] ext = <<".", "w", "e", "b", "p">> -> "webp"
         [] ext = <<".", "g", "i", "f">> -> "gif"
         [] ext = <<".", "a", "v", "i", "f">> -> "avif"
         [] OTHER -> "none"

\* the per-kind options entry is absent or has no keys
NoOptionsFor(kind) ==
    \/ kind \notin DOMAIN options.sharpOptions
    \/ options.sharpOptions[kind].t = "undefined"
    \/ options.sharpOptions[kind].kv = {}

\* the task of entry k called an encoder and the call has come back
EncodeReturned(k) == task[k].st = "settled" /\ encoded[k].t = "bytes"
EncodeThrew(k) == task[k].st = "settled" /\ encoded[k].t = "threw"

\* ----------------------------------------------------------------- claims
\* C1: the content of a raster asset is replaced by the encoder's output if
\* and only if the output is strictly smaller than the original; otherwise
\* the asset keeps its content and the ledger records finalSize = originalSize.
C1_SizeGate ==
    \A k \in DOMAIN bundle :
        EncodeReturned(k) =>
            /\ (bundle[k].source = encoded[k]) <=> (encoded[k].len < OriginalBytes(k))
            /\ encoded[k].len >= OriginalBytes(k) => Unchanged(k) /\ KeptOriginalSize(k)

C1_Witness ==
    \E k \in DOMAIN bundle :
        /\ pc = "done"
        /\ EncodeReturned(k)
        /\ encoded[k].len = OriginalBytes(k)
        /\ Unchanged(k)

\* C2 (as stated): once generateBundle has completed, the ledger has as many
\* entries as there are assets passing the filter, whatever their content type.
C2_Original ==
    pc = "done" =>
        Cardinality(DOMAIN processedFiles) =
            Cardinality({k \in DOMAIN bundle : IsCandidate(k)})

\* C2 (amended): once generateBundle has completed, the ledger holds one entry
\* for each asset that passes the filter and whose content is text or bytes,
\* and no other entry, however many tasks raised errors; a candidate whose
\* content is of an unrecognized type has no entry.
C2_LedgerCompleteness ==
    pc = "done" =>
        /\ DOMAIN processedFiles =
             {bundle0[k].fileName : k \in {j \in DOMAIN bundle :
                                              IsCandidate(j) /\ ~HasUnknown(j)}}
        /\ Cardinality(DOMAIN processedFiles) =
             Cardinality({k \in DOMAIN bundle : IsCandidate(k) /\ ~HasUnknown(k)})

C2_Witness ==
    /\ pc = "done"
    /\ \E j, k \in DOMAIN bundle :
          /\ IsCandidate(j) /\ HasUnknown(j)
          /\ EncodeThrew(k)
          /\ InLedger(bundle0[k].fileName)

\* C3: when the encoder call of an asset throws, that asset keeps its content,
\* its ledger entry records finalSize = originalSize, an error is logged, the
\* join is not blocked, and every other asset ends with the content and the
\* ledger entry that its own source and its own encoder result determine.
OwnOutcome(j) ==
    IF EncodeReturned(j) /\ encoded[j].len < OriginalBytes(j)
    THEN /\ bundle[j].source = encoded[j]
         /\ InLedger(bundle0[j].fileName)
         /\ processedFiles[bundle0[j].fileName] =
              [originalSize |-> OriginalBytes(j), compressedSize |-> encoded[j].len]
    ELSE /\ Unchanged(j)
         /\ IF IsCandidate(j) /\ ~HasUnknown(j)
            THEN KeptOriginalSize(j)
            ELSE ~InLedger(bundle0[j].fileName)

C3_FailureIsolation ==
    \A k \in DOMAIN bundle :
        EncodeThrew(k) =>
            /\ Unchanged(k)
            /\ KeptOriginalSize(k)
            /\ Logged("error", "processing-error", bundle0[k].fileName)
            /\ (pc = "await" /\ (\A j \in DOMAIN bundle : task[j].st # "awaiting")
                    => ENABLED PromiseAll)
            /\ pc = "done" => \A j \in DOMAIN bundle \ {k} : OwnOutcome(j)

C3_Witness ==
    /\ pc = "done"
    /\ \E j, k \in DOMAIN bundle :
          /\ EncodeThrew(k)
          /\ EncodeReturned(j)
          /\ encoded[j].len < OriginalBytes(j)
          /\ bundle[j].source = encoded[j]

\* C4: generateBundle completes only when every spawned task has settled and
\* written its ledger entry, and once it has completed neither the ledger nor
\* the content of any asset changes again.
C4_JoinAll ==
    [][/\ pc' = "done" =>
            \A k \in DOMAIN bundle :
                /\ task'[k].st # "awaiting"
                /\ sharpCalls'[k] > 0 => bundle0[k].fileName \in DOMAIN processedFiles'
       /\ pc = "done" => processedFiles' = processedFiles /\ bundle' = bundle]_vars

C4_Witness ==
    /\ pc = "done"
    /\ report.t = "report"
    /\ \A k \in DOMAIN bundle : EncodeReturned(k) \/ EncodeThrew(k)
    /\ Len(bundle) >= 2

\* C5: an entry that is a chunk, fails include or matches exclude is never
\* handed to sharp, keeps its content and never appears in the ledger.
C5_Filter ==
    \A k \in DOMAIN bundle :
        ~IsCandidate(k) =>
            /\ sharpCalls[k] = 0
            /\ encodeCalls[k] = <<>>
            /\ task[k].st = "none"
            /\ Unchanged(k)
            /\ ~InLedger(bundle0[k].fileName)

C5_Witness ==
    /\ pc = "done"
    /\ \E j, k \in DOMAIN bundle :
          /\ bundle0[j].type = "asset" /\ HasBytes(j)
          /\ MatchesInclude(bundle0[j].fileName) /\ MatchesExclude(bundle0[j].fileName)
          /\ IsCandidate(k) /\ InLedger(bundle0[k].fileName)

\* C6: a candidate whose lowercased extension is .svg, with text or bytes as
\* content, is never handed to sharp, keeps its content, and once its loop
\* iteration has run its ledger entry has originalSize = finalSize.
C6_SvgBypass ==
    \A k \in DOMAIN bundle :
        IsCandidate(k) /\ SvgExt(k) /\ (HasText(k) \/ HasBytes(k)) =>
            /\ sharpCalls[k] = 0
            /\ encodeCalls[k] = <<>>
            /\ task[k].st = "none"
            /\ Unchanged(k)
            /\ Processed(k) => KeptOriginalSize(k)
            /\ InLedger(bundle0[k].fileName) =>
                   processedFiles[bundle0[k].fileName].originalSize =
                       processedFiles[bundle0[k].fileName].compressedSize

C6_Witness ==
    /\ pc = "done"
    /\ \E j, k \in DOMAIN bundle :
          /\ IsCandidate(k) /\ SvgExt(k) /\ HasBytes(k)
          /\ InLedger(bundle0[k].fileName)
          /\ EncodeReturned(j)

\* C7: for a raster asset whose per-kind options entry is absent or has no
\* keys, no encoder is called, the content is unchanged and the ledger entry,
\* when there is one, has finalSize = originalSize; a candidate of that sort
\* with bytes as content has such an entry once its iteration has run.  With
\* the default options this is the case of every .gif asset.
C7_EmptyOptions ==
    \A k \in DOMAIN bundle :
        /\ bundle0[k].type = "asset" /\ RasterKind(k) # "none"
              /\ NoOptionsFor(RasterKind(k)) =>
            /\ encodeCalls[k] = <<>>
            /\ task[k].st # "awaiting"
            /\ encoded[k] = None
            /\ Unchanged(k)
            /\ InLedger(bundle0[k].fileName) => KeptOriginalSize(k)
            /\ IsCandidate(k) /\ HasBytes(k) /\ Processed(k) => KeptOriginalSize(k)
        /\ bundle0[k].type = "asset" /\ RasterKind(k) = "gif"
              /\ options.sharpOptions = defaultSharpOptions =>
            encodeCalls[k] = <<>> /\ Unchanged(k)

C7_Witness ==
    /\ pc = "done"
    /\ \E j, k \in DOMAIN bundle :
          /\ RasterKind(k) = "gif" /\ HasBytes(k) /\ IsCandidate(k)
          /\ options.sharpOptions = defaultSharpOptions
          /\ task[k].st = "settled"
          /\ sharpCalls[k] = 1
          /\ ~Logged("error", "processing-error", bundle0[k].fileName)
          /\ KeptOriginalSize(k)
          /\ EncodeReturned(j)

\* C8: for every ledger entry with finalSize < originalSize, the content of
\* the asset after the batch is the very buffer the encoder returned for it,
\* that buffer's length is finalSize, and closeBundle reports it as compressed.
C8_CompressedOutcome ==
    /\ pc = "done" =>
          \A k \in DOMAIN bundle :
              /\ InLedger(bundle0[k].fileName)
              /\ processedFiles[bundle0[k].fileName].compressedSize <
                     processedFiles[bundle0[k].fileName].originalSize
              => /\ EncodeReturned(k)
                 /\ bundle[k].source = encoded[k]
                 /\ bundle[k].source.len = processedFiles[bundle0[k].fileName].compressedSize
    /\ report.t = "report" =>
          \A f \in DOMAIN report.rows :
              report.rows[f].compressedSize < report.rows[f].originalSize =>
                  report.rows[f].Status = "compressed"

C8_Witness ==
    /\ pc = "done"
    /\ report.t = "report"
    /\ \E k \in DOMAIN bundle :
          /\ InLedger(bundle0[k].fileName)
          /\ processedFiles[bundle0[k].fileName].compressedSize <
                 processedFiles[bundle0[k].fileName].originalSize
          /\ report.rows[bundle0[k].fileName].Status = "compressed"

\* C9 (as stated): every asset whose content is neither text nor bytes gets
\* a warning and no ledger entry, whether or not its path passes the filter.
C9_Original ==
    \A k \in DOMAIN bundle :
        HasUnknown(k) /\ Processed(k) =>
            /\ Logged("warn", "unknown-source", bundle0[k].fileName)
            /\ ~InLedger(bundle0[k].fileName)

\* C9 (amended): an asset whose content is neither text nor bytes never gets
\* a ledger entry; the content type is looked at after the filter, so the
\* warning is emitted exactly for those of them that pass the filter.
C9_UnrecognizedContent ==
    \A k \in DOMAIN bundle :
        HasUnknown(k) =>
            /\ ~InLedger(bundle0[k].fileName)
            /\ sharpCalls[k] = 0
            /\ Processed(k) =>
                  (Logged("warn", "unknown-source", bundle0[k].fileName) <=> IsCandidate(k))
            /\ ~Processed(k) => ~Logged("warn", "unknown-source", bundle0[k].fileName)

C9_Witness ==
    /\ pc = "done"
    /\ \E j, k \in DOMAIN bundle :
          /\ HasUnknown(j) /\ IsCandidate(j)
          /\ Logged("warn", "unknown-source", bundle0[j].fileName)
          /\ HasUnknown(k) /\ ~IsCandidate(k)
          /\ ~Logged("warn", "unknown-source", bundle0[k].fileName)

\* C10: for a candidate whose content is text and whose extension is not
\* .svg, a warning is emitted whatever the log option, sharp is never called,
\* the content is unchanged and the ledger records finalSize = originalSize.
C10_TextPayload ==
    \A k \in DOMAIN bundle :
        IsCandidate(k) /\ HasText(k) /\ ~SvgExt(k) =>
            /\ sharpCalls[k] = 0
            /\ encodeCalls[k] = <<>>
            /\ task[k].st = "none"
            /\ Unchanged(k)
            /\ Processed(k) =>
                  /\ Logged("warn", "string-non-svg", bundle0[k].fileName)
                  /\ KeptOriginalSize(k)

C10_Witness ==
    /\ pc = "done"
    /\ ~options.log
    /\ \E k \in DOMAIN bundle :
          /\ IsCandidate(k) /\ HasText(k) /\ ~SvgExt(k)
          /\ OriginalBytes(k) = 3
          /\ Logged("warn", "string-non-svg", bundle0[k].fileName)
          /\ KeptOriginalSize(k)

\* C11: within one generateBundle call, for every entry sharp and its encoder
\* are called at most once, the content is replaced at most once (a step that
\* changes it starts from the original content and is the one write of the
\* entry's key), the ledger key of an entry is written at most once, exactly
\* once by the end if the entry is a candidate holding text or bytes and never
\* otherwise; the keys of a bundle being distinct, no two tasks write one key.
C11_AtMostOnce ==
    [][/\ \A k \in DOMAIN bundle :
             LET f == bundle0[k].fileName
             IN /\ sharpCalls'[k] <= 1
                /\ Len(encodeCalls'[k]) <= 1
                /\ writes'[f] <= 1
                /\ bundle'[k] # bundle[k] =>
                       /\ bundle[k] = bundle0[k]
                       /\ writes[f] = 0 /\ writes'[f] = 1
                /\ ~(IsCandidate(k) /\ ~HasUnknown(k)) => writes'[f] = 0
                /\ IsCandidate(k) /\ ~HasUnknown(k) /\ pc' = "done" => writes'[f] = 1
                /\ \A j \in DOMAIN bundle : j # k => bundle0[j].fileName # f
       /\ \A f \in Paths :
             (\A k \in DOMAIN bundle : bundle0[k].fileName # f) => writes'[f] = 0]_vars

C11_Witness ==
    /\ pc = "done"
    /\ \E j, k \in DOMAIN bundle :
          /\ EncodeReturned(j) /\ bundle[j] # bundle0[j]
          /\ writes[bundle0[j].fileName] = 1
          /\ Len(encodeCalls[j]) = 1
          /\ IsCandidate(k) /\ HasUnknown(k)
          /\ writes[bundle0[k].fileName] = 0

\* C12: (a) if every encoder call returns or throws, a generateBundle that has
\* been called eventually completes; (b) whether or not the encoder call on
\* one asset ever returns, the task of every other asset settles and, when its
\* encoder was called, writes its ledger entry; (c) as long as a task is
\* suspended at its encoder call generateBundle has not completed and cannot.
C12_HangAndTermination ==
    /\ (\A k \in 1..MaxAssets :
            (k \in DOMAIN task /\ task[k].st = "awaiting")
                ~> (k \in DOMAIN task /\ task[k].st = "settled"))
          => ((pc = "loop") ~> (pc = "done"))
    /\ \A k \in 1..MaxAssets :
          (k \in DOMAIN task /\ ~MayHang(k) /\ task[k].st = "awaiting")
              ~> (k \in DOMAIN task /\ task[k].st = "settled"
                    /\ InLedger(bundle0[k].fileName)
                    /\ writes[bundle0[k].fileName] = 1)
    /\ (pc = "loop") ~> (pc \in {"await", "done"})
    /\ [](\A k \in DOMAIN task :
             task[k].st = "awaiting" => pc # "done" /\ ~ENABLED PromiseAll)

C12_Witness ==
    /\ pc = "await"
    /\ \E j, k \in DOMAIN bundle :
          /\ MayHang(k) /\ task[k].st = "awaiting"
          /\ j > k
          /\ EncodeReturned(j)
          /\ InLedger(bundle0[j].fileName)
          /\ ~InLedger(bundle0[k].fileName)

\* what the source and the encoder result of entry k give, by themselves
ExpectedSize(k) ==
    IF encoded[k].t = "bytes" /\ encoded[k].len < OriginalBytes(k)
    THEN encoded[k].len ELSE OriginalBytes(k)

ExpectedContent(k) ==
    IF encoded[k].t = "bytes" /\ encoded[k].len < OriginalBytes(k)
    THEN encoded[k] ELSE bundle0[k].source

ExpectedLedger ==
    [f \in {bundle0[k].fileName :
                k \in {j \in DOMAIN bundle : IsCandidate(j) /\ ~HasUnknown(j)}} |->
        LET k == CHOOSE j \in DOMAIN bundle : bundle0[j].fileName = f
        IN [originalSize |-> OriginalBytes(k), compressedSize |-> ExpectedSize(k)]]

\* C13: the ledger and the contents are a function of the batch, the
\* configuration and the result of each encoder call, whatever the order in
\* which the tasks complete: in every state an entry whose task has settled
\* has the content and the ledger entry its own source and encoder result
\* give, an entry whose task is still suspended has its original content and
\* no ledger entry, and once generateBundle has completed the whole ledger is
\* the one those results give.
C13_InterleavingIndependence ==
    /\ \A k \in DOMAIN bundle :
          /\ bundle[k].source = ExpectedContent(k)
          /\ task[k].st = "awaiting" => ~InLedger(bundle0[k].fileName)
          /\ task[k].st = "settled" =>
                 /\ InLedger(bundle0[k].fileName)
                 /\ processedFiles[bundle0[k].fileName] = ExpectedLedger[bundle0[k].fileName]
    /\ pc = "done" => processedFiles = ExpectedLedger

\* the task spawned second has completed first, with an output that replaced
\* the content, and the task spawned first is still at its encoder call
C13_Witness ==
    \E j, k \in DOMAIN bundle :
        /\ j < k
        /\ task[j].st = "awaiting"
        /\ EncodeReturned(k) /\ bundle[k].source = encoded[k]
        /\ bundle[k] # bundle0[k]
        /\ DOMAIN processedFiles = {bundle0[k].fileName}

\* the userOptions the plugin was created with, and what they say of a kind
CallerOptions == CHOOSE u \in UserOptionsSet : MergeOptions(u) = options

CallerSuppliesRecord(kind) ==
    /\ "sharpOptions" \in DOMAIN CallerOptions
    /\ kind \in DOMAIN CallerOptions.sharpOptions
    /\ CallerOptions.sharpOptions[kind].t = "object"

EffectiveRecord(kind) ==
    IF CallerSuppliesRecord(kind) THEN CallerOptions.sharpOptions[kind]
    ELSE defaultSharpOptions[kind]

\* C14: the effective options record of each raster kind is the caller's
\* record for that kind when the caller supplies one and the built-in default
\* record otherwise, and an encoder is called with the effective record of the
\* asset's own kind and no other.
C14_OptionsMerge ==
    /\ \A kind \in DOMAIN defaultSharpOptions :
          options.sharpOptions[kind] = EffectiveRecord(kind)
    /\ \A k \in DOMAIN bundle :
          \A i \in DOMAIN encodeCalls[k] :
              encodeCalls[k][i] = <<RasterKind(k), EffectiveRecord(RasterKind(k))>>

\* C15: for a candidate with bytes as content whose lowercased extension is
\* none of .jpg, .jpeg, .png, .webp, .gif, .avif, .svg, no encoder is ever
\* called, the content is unchanged, and once its loop iteration has run the
\* ledger records finalSize = originalSize.
C15_UnsupportedKind ==
    \A k \in DOMAIN bundle :
        IsCandidate(k) /\ HasBytes(k) /\ RasterKind(k) = "none" /\ ~SvgExt(k) =>
            /\ encodeCalls[k] = <<>>
            /\ encoded[k] = None
            /\ task[k].st # "awaiting"
            /\ Unchanged(k)
            /\ Processed(k) => KeptOriginalSize(k)
            /\ ~Processed(k) => ~InLedger(bundle0[k].fileName)

C15_Witness ==
    /\ pc = "done"
    /\ \E j, k \in DOMAIN bundle :
          /\ IsCandidate(k) /\ HasBytes(k) /\ RasterKind(k) = "none" /\ ~SvgExt(k)
          /\ task[k].st = "settled"
          /\ Logged("info", "skip-unsupported", bundle0[k].fileName)
          /\ KeptOriginalSize(k)
          /\ EncodeReturned(j) /\ bundle[j].source = encoded[j]

\* the kind a suffix word stands for, as the specification lists them
KindOfWord(w) ==
    CASE w \in {W_jpg, W_jpeg} -> "jpeg"
      [] w = W_png -> "png"
      [] w = W_webp -> "webp"
      [] w = W_gif -> "gif"
      [] w = W_avif -> "avif"
      [] w = W_svg -> "svg"
      [] OTHER -> "other"

Classified(fileName) == IF Kind(fileName) = "default" THEN "other" ELSE Kind(fileName)

\* C16: what an asset is taken for depends only on the lowercased extension
\* of its path: .jpg and .jpeg are jpeg; .png, .webp, .gif, .avif and .svg
\* are their own kind in lower case, in upper case and capitalised, whatever
\* the directory and the stem; every other extension, and a base name with
\* no extension (a dot-file such as ".svg" has none), is other; and the hooks
\* act on that kind: the SVG bypass for svg, the encoder of its kind for a
\* raster kind, the unsupported branch for other.
C16_Classification ==
    \A k \in DOMAIN bundle :
        LET f == bundle0[k].fileName
        IN /\ \A dir \in ClassifyDirs, stem \in ClassifyStems :
                 /\ \A w \in ClassifyWords, case \in LetterCases :
                        f = WithSuffix(dir, stem, w, case) =>
                            Classified(f) = IF stem = <<>> THEN "other" ELSE KindOfWord(w)
                 /\ stem # <<>> /\ f = WithoutSuffix(dir, stem) => Classified(f) = "other"
           /\ IsCandidate(k) /\ HasBytes(k) /\ Processed(k) /\ options.log
                 /\ ~Logged("error", "processing-error", f) =>
                 /\ Logged("info", "skip-svg", f) <=> Classified(f) = "svg"
                 /\ Logged("info", "skip-unsupported", f) <=> Classified(f) = "other"
                 /\ encodeCalls[k] # <<>> => encodeCalls[k][1][1] = Classified(f)
                 /\ Classified(f) \notin {"svg", "other"} /\ ~NoOptionsFor(Classified(f))
                        => encodeCalls[k] # <<>>

C16_Witness ==
    /\ pc = "done"
    /\ bundle0[1].fileName = WithSuffix(<<"a", ".", "d", "/">>, <<"b", ".", "c">>, W_jpeg, "capital")
    /\ EncodeReturned(1)
    /\ encodeCalls[1][1][1] = "jpeg"

\* C17: an asset whose processing raised an exception is reported by
\* closeBundle with the error status, not with the status of an asset whose
\* encoding brought no improvement.
C17_ErrorStatus ==
    report.t = "report" =>
        \A f \in DOMAIN report.rows :
            Logged("error", "processing-error", f) =>
                report.rows[f].Status = "error-or-not-compressed"

\* how many times a message was emitted
TimesLogged(level, msg, fileName) ==
    IF Logged(level, msg, fileName) THEN logs[Log(level, msg, fileName)] ELSE 0

\* C18: with log enabled, for a raster asset the "size unchanged" message is
\* emitted (once) exactly when an encoder was called with a record that has
\* keys and returned an output as long as the original, the "not smaller"
\* message is emitted (once) exactly when the output is longer, and neither
\* is emitted when no encoder was called, when the output is shorter or when
\* the call threw.
C18_NoImprovementLogging ==
    options.log =>
        \A k \in DOMAIN bundle :
            bundle0[k].type = "asset" /\ RasterKind(k) # "none" =>
                LET f == bundle0[k].fileName
                    tie == /\ encodeCalls[k] # <<>>
                           /\ ~NoOptionsFor(RasterKind(k))
                           /\ EncodeReturned(k)
                           /\ encoded[k].len = OriginalBytes(k)
                    longer == EncodeReturned(k) /\ encoded[k].len > OriginalBytes(k)
                IN /\ TimesLogged("info", "size-unchanged", f) = IF tie THEN 1 ELSE 0
                   /\ TimesLogged("info", "not-smaller", f) = IF longer THEN 1 ELSE 0

C18_Witness ==
    /\ pc = "done"
    /\ options.log
    /\ \E j, k \in DOMAIN bundle :
          /\ EncodeReturned(j) /\ encoded[j].len = OriginalBytes(j)
          /\ Logged("info", "size-unchanged", bundle0[j].fileName)
          /\ EncodeReturned(k) /\ encoded[k].len > OriginalBytes(k)
          /\ Logged("info", "not-smaller", bundle0[k].fileName)

\* the ledger as a function of the inputs other than log
LedgerWithoutLog ==
    [f \in {bundle0[k].fileName :
                k \in {j \in DOMAIN bundle :
                          /\ bundle0[j].type = "asset"
                          /\ createFilter(options.include, options.exclude,
                                          bundle0[j].fileName)
                          /\ bundle0[j].source.t \in {"string", "bytes"}}} |->
        LET k == CHOOSE j \in DOMAIN bundle : bundle0[j].fileName = f
            shorter == encoded[k].t = "bytes" /\ encoded[k].len < OriginalBytes(k)
        IN [originalSize |-> OriginalBytes(k),
            compressedSize |-> IF shorter THEN encoded[k].len ELSE OriginalBytes(k)]]

\* C19: the log option changes nothing but messages.  (a) Whether log is
\* true or false, the content of every asset and the ledger are what the
\* batch, the filter, the format records and the encoder results give: an
\* entry that has been through the loop and is not suspended has its ledger
\* entry, and the ledger of a completed generateBundle is the same function
\* of those inputs.  (b) With log = false no info message is ever emitted,
\* and closeBundle prints its report only with log = true and a ledger that
\* is not empty.  (c) A closeBundle step changes neither the ledger nor any
\* asset.
C19_LogIsCosmetic ==
    /\ [](/\ \A k \in DOMAIN bundle :
               /\ bundle[k].source =
                     IF encoded[k].t = "bytes" /\ encoded[k].len < OriginalBytes(k)
                     THEN encoded[k] ELSE bundle0[k].source
               /\ Processed(k) /\ task[k].st # "awaiting"
                     /\ bundle0[k].fileName \in DOMAIN LedgerWithoutLog =>
                     /\ InLedger(bundle0[k].fileName)
                     /\ processedFiles[bundle0[k].fileName] =
                            LedgerWithoutLog[bundle0[k].fileName]
          /\ pc = "done" => processedFiles = LedgerWithoutLog
          /\ ~options.log => \A m \in DOMAIN logs : m.level # "info"
          /\ report.t = "report" => options.log /\ DOMAIN processedFiles # {})
    /\ [][closeBundle => processedFiles' = processedFiles /\ bundle' = bundle]_vars

C19_Witness ==
    /\ pc = "done"
    /\ ~options.log
    /\ report = None
    /\ \E j, k \in DOMAIN bundle :
          /\ IsCandidate(j) /\ SvgExt(j) /\ KeptOriginalSize(j)
          /\ EncodeReturned(k) /\ encoded[k].len > OriginalBytes(k)
          /\ KeptOriginalSize(k)
    /\ \A m \in DOMAIN logs : m.level # "info"

ContentBytes(k) ==
    IF bundle[k].source.t = "string" THEN Utf8Length(bundle[k].source.chars)
    ELSE bundle[k].source.len

\* C21 (as stated): once generateBundle has completed, for every asset of
\* the batch that has a ledger entry, the byte length of the asset's content
\* equals the entry's compressedSize.
C21_Original ==
    pc = "done" =>
        \A k \in DOMAIN bundle :
            bundle[k].type = "asset" /\ InLedger(bundle[k].fileName) =>
                /\ bundle[k].source.t \in {"string", "bytes"}
                /\ ContentBytes(k) = processedFiles[bundle[k].fileName].compressedSize

\* C21 (amended): once a generateBundle call has completed, for every asset
\* of its bundle whose content is text or bytes and that has a ledger entry,
\* the byte length of the content equals the entry's compressedSize,
\* whichever way the asset ended; an asset whose content is of another type
\* is not looked at, and the entry an earlier call left under its path stays.
C21_ContentMatchesLedger ==
    /\ pc = "done" =>
          \A k \in DOMAIN bundle :
              /\ bundle[k].type = "asset"
              /\ bundle[k].source.t \in {"string", "bytes"}
              /\ InLedger(bundle[k].fileName)
              => ContentBytes(k) = processedFiles[bundle[k].fileName].compressedSize
    /\ \A k \in DOMAIN bundle :
          /\ HasUnknown(k) /\ previous.t = "previous"
          /\ bundle[k].fileName \in DOMAIN previous.ledger
          => /\ InLedger(bundle[k].fileName)
             /\ processedFiles[bundle[k].fileName] = previous.ledger[bundle[k].fileName]

C21_Witness ==
    /\ pc = "done"
    /\ repeats = 1
    /\ \E k \in DOMAIN bundle :
          /\ bundle[k].fileName \in DOMAIN previous.ledger
          /\ EncodeReturned(k) /\ bundle[k] # bundle0[k]
          /\ ContentBytes(k) = processedFiles[bundle[k].fileName].compressedSize
          /\ ContentBytes(k) < OriginalBytes(k)

\* the sum of a field over the entries of the ledger, path by path
RECURSIVE LedgerSum(_, _)
LedgerSum(field, i) ==
    IF i = 0 THEN 0
    ELSE LedgerSum(field, i - 1)
           + (IF PathOrder[i] \in DOMAIN processedFiles
              THEN processedFiles[PathOrder[i]][field] ELSE 0)

InCurrentBundle(f) == \E k \in DOMAIN bundle : bundle[k].fileName = f

\* C22: the ledger belongs to the plugin instance and is never cleared: no
\* step removes an entry, an entry changes only in a step of a call whose
\* bundle holds its path, after a repeated call the entries the call before
\* left are all there, unchanged for the paths the new bundle does not hold,
\* and a closeBundle that prints has one row for every entry of the ledger,
\* of the earlier calls too, and totals them all.
C22_LedgerPersists ==
    /\ [][/\ DOMAIN processedFiles \subseteq DOMAIN processedFiles'
          /\ \A f \in DOMAIN processedFiles :
                processedFiles'[f] # processedFiles[f] =>
                    /\ InCurrentBundle(f)
                    /\ pc \in {"loop", "await"} /\ pc' = pc
          /\ closeBundle /\ options.log /\ DOMAIN processedFiles # {} =>
                /\ report'.t = "report"
                /\ DOMAIN report'.rows = DOMAIN processedFiles
                /\ \A f \in DOMAIN processedFiles :
                      /\ report'.rows[f].originalSize = processedFiles[f].originalSize
                      /\ report'.rows[f].compressedSize = processedFiles[f].compressedSize
                /\ report'.totalOriginalSize = LedgerSum("originalSize", Len(PathOrder))
                /\ report'.totalCompressedSize = LedgerSum("compressedSize", Len(PathOrder))]_vars
    /\ [](previous.t = "previous" =>
             /\ DOMAIN previous.ledger \subseteq DOMAIN processedFiles
             /\ \A f \in DOMAIN previous.ledger :
                   ~InCurrentBundle(f) => processedFiles[f] = previous.ledger[f])

C22_Witness ==
    /\ pc = "done"
    /\ repeats = 1
    /\ report.t = "report"
    /\ DOMAIN report.rows = DOMAIN processedFiles
    /\ \E f, g \in DOMAIN previous.ledger :
          /\ ~InCurrentBundle(f)
          /\ report.rows[f].originalSize = previous.ledger[f].originalSize
          /\ InCurrentBundle(g)
          /\ processedFiles[g] # previous.ledger[g]
          /\ report.rows[g].compressedSize = processedFiles[g].compressedSize
    /\ report.totalOriginalSize = LedgerSum("originalSize", Len(PathOrder))

\* the byte length of a content that is text or bytes
BytesOf(src) == IF src.t = "string" THEN Utf8Length(src.chars) ELSE src.len

IsTextOrBytes(src) == src.t \in {"string", "bytes"}

\* a step that hands generateBundle another bundle
OtherBundleHandedOver == pc = "done" /\ pc' = "loop" /\ bundle' # bundle

\* C23: over the calls of generateBundle on one bundle no step makes the
\* content of an asset longer; and a call that is handed the bundle as the
\* call before left it takes the content as it is now for the original: the
\* originalSize it records for a path is the compressedSize the call before
\* recorded for it.
C23_RepeatedCalls ==
    /\ [][OtherBundleHandedOver \/
            \A k \in DOMAIN bundle :
                IsTextOrBytes(bundle[k].source) =>
                    /\ IsTextOrBytes(bundle'[k].source)
                    /\ BytesOf(bundle'[k].source) <= BytesOf(bundle[k].source)]_vars
    /\ [](previous.t = "previous" /\ previous.bundle = bundle0 =>
             \A k \in DOMAIN bundle :
                 /\ IsTextOrBytes(bundle[k].source)
                 /\ Processed(k) /\ task[k].st # "awaiting"
                 /\ InLedger(bundle[k].fileName)
                 => /\ bundle[k].fileName \in DOMAIN previous.ledger
                    /\ processedFiles[bundle[k].fileName].originalSize =
                          previous.ledger[bundle[k].fileName].compressedSize
                    /\ processedFiles[bundle[k].fileName].compressedSize <=
                          previous.ledger[bundle[k].fileName].compressedSize)

C23_Witness ==
    /\ pc = "done"
    /\ repeats = 1
    /\ previous.bundle = bundle0
    /\ \E k \in DOMAIN bundle :
          LET f == bundle[k].fileName
          IN /\ f \in DOMAIN previous.ledger
             /\ previous.ledger[f].compressedSize < previous.ledger[f].originalSize
             /\ EncodeReturned(k)
             /\ processedFiles[f].originalSize = previous.ledger[f].compressedSize
             /\ BytesOf(bundle[k].source) = previous.ledger[f].compressedSize

====
